---- MODULE Spec2Model ----
(***************************************************************************)
(* Article data-access layer of actix-realworld-example-app                *)
(* (src/db/articles.rs): the message handlers of DbExecutor and the helper *)
(* functions they call, over the tables articles, article_tags,            *)
(* favorite_articles and followers.                                        *)
(*                                                                         *)
(* Strings are sequences of one-character strings.  Timestamps are not     *)
(* modelled (no handler reads them).                                       *)
(***************************************************************************)
EXTENDS Integers, Sequences, FiniteSets, Bags, TLC

\* ------------------------------------------------------------------ bounds
NumUsers == 2
NumUuids == 2
NumTitles == 2
NumTexts == 1
NumTagNames == 1
MaxTagList == 2

Users == 1..NumUsers
Uuids == 0..(NumUuids - 1)
Texts == 1..NumTexts
TagNames == 1..NumTagNames

\* the titles requests are drawn from; the third slugifies like the first
TitlePool ==
    << <<"A", " ", "b">>, <<"b">>, <<"a", "-", "-", "b", "!">>, <<" ", "A">>,
       <<"b", "-">>, <<"a", "b">> >>
Titles == { TitlePool[i] : i \in 1..NumTitles }

\* Option<T>: None, or Some(x) holding x
None == <<>>
Some(x) == <<x>>
Unwrap(option) == option[1]
Opt(S) == {None} \cup { Some(x) : x \in S }

\* ------------------------------------------------------ slug generation
RECURSIVE Pow(_, _)
Pow(b, n) == IF n = 0 THEN 1 ELSE b * Pow(b, n - 1)

\* the characters a blob is written in (base64's URL-safe alphabet holds
\* '-' and '_' too)
BlobAlphabet == <<"a", "-">>

RECURSIVE DigitsFor(_, _)
DigitsFor(n, base) == IF n <= 1 THEN 0 ELSE 1 + DigitsFor((n + base - 1) \div base, base)

\* every uuid encodes to the same number of characters (22 for 128 bits)
BlobLen == IF NumUuids <= 1 THEN 1 ELSE DigitsFor(NumUuids, Len(BlobAlphabet))

\* blob_uuid::to_blob: the uuid's value written big-endian, fixed width
to_blob(uuid) ==
    [ i \in 1..BlobLen |->
        BlobAlphabet[((uuid \div Pow(Len(BlobAlphabet), BlobLen - i))
                        % Len(BlobAlphabet)) + 1] ]

IsAlnum(c) == c \in {"A", "a", "b"}
Lower(c) == IF c = "A" THEN "a" ELSE c

\* slug::slugify: alphanumerics lower-cased, every run of other characters
\* one '-', no '-' at either end
RECURSIVE SlugifyFrom(_, _, _, _)
SlugifyFrom(s, i, acc, prevDash) ==
    IF i > Len(s) THEN acc
    ELSE IF IsAlnum(s[i]) THEN SlugifyFrom(s, i + 1, Append(acc, Lower(s[i])), FALSE)
    ELSE IF prevDash THEN SlugifyFrom(s, i + 1, acc, TRUE)
    ELSE SlugifyFrom(s, i + 1, Append(acc, "-"), TRUE)

TrimDash(s) ==
    IF Len(s) > 0 /\ s[Len(s)] = "-" THEN SubSeq(s, 1, Len(s) - 1) ELSE s

slugify(title) == TrimDash(SlugifyFrom(title, 1, <<>>, TRUE))

\* a slug made of the title alone
generate_slug_title_only(uuid, title) == slugify(title)

generate_slug(uuid, title) == to_blob(uuid) \o <<"-">> \o slugify(title)

\* ------------------------------------------------------------- the store
VARIABLES
    articles,           \* rows of table articles
    article_tags,       \* rows of table article_tags
    favorite_articles,  \* rows of table favorite_articles
    followers,          \* rows of table followers (only read here)
    ops,                \* the handlers at work one statement at a time
    copies              \* per table, how many copies of each row are stored

vars == <<articles, article_tags, favorite_articles, followers, ops, copies>>

\* the database a handler's connection reads and writes
DB ==
    [ articles |-> articles, article_tags |-> article_tags,
      favorite_articles |-> favorite_articles, followers |-> followers ]

\* Result<T>: Ok, or the kind of crate::Error
Ok == "Ok"
NotFound == "NotFound"
Forbidden == "Forbidden"
Conflict == "Conflict"
InternalServerError == "InternalServerError"

\* From<diesel::result::Error> for Error, which `?` applies: no row is
\* NotFound, a uniqueness violation is Conflict, anything else a storage failure
ErrorFrom(dieselError) ==
    CASE dieselError = "NotFound" -> NotFound
      [] dieselError = "UniqueViolation" -> Conflict
      [] OTHER -> InternalServerError

\* the primary key of articles: an insert of a taken id is a uniqueness violation
ArticleIdTaken(db, id) == \E a \in db.articles : a.id = id

\* the key of favorite_articles: one row per (user_id, article_id)
FavoriteTaken(db, row) == row \in db.favorite_articles

\* the rows of `table` for one article
TagsOf(table, article_id) == { t \in table : t.article_id = article_id }
FavoritesOf(table, article_id) == { f \in table : f.article_id = article_id }

\* Vec<String> arguments: every list of tag names of at most MaxTagList entries
RECURSIVE SeqsUpTo(_, _)
SeqsUpTo(S, n) ==
    IF n = 0 THEN { <<>> }
    ELSE LET shorter == SeqsUpTo(S, n - 1)
         IN  shorter \cup { Append(s, x) : s \in { q \in shorter : Len(q) = n - 1 }, x \in S }

TagLists == SeqsUpTo(TagNames, MaxTagList)

\* the orders in which a query without ORDER BY may return the elements of S
Orderings(S) ==
    { s \in [1..Cardinality(S) -> S] : \A i, j \in 1..Cardinality(S) : i # j => s[i] # s[j] }

\* the elements of a list, as a set
Range(s) == { s[i] : i \in 1..Len(s) }

\* ------------------------------------------------------ helper functions
\* a plain INSERT into a table that accepts a second copy of a pair
add_tag_plain_insert(table, article_id, tag_name) ==
    LET row == [article_id |-> article_id, tag_name |-> tag_name]
    IN  [table |-> table \cup {row}, err |-> Ok, rows |-> <<row>>]

\* add_tag: INSERT ... ON CONFLICT (article_id, tag_name) DO NOTHING RETURNING *,
\* read with get_result: a conflicting insert returns no row, which
\* get_result reports as Err(NotFound)
add_tag(table, article_id, tag_name) ==
    LET row == [article_id |-> article_id, tag_name |-> tag_name]
    IN  IF row \in table
        THEN [table |-> table, err |-> ErrorFrom("NotFound"), rows |-> <<>>]
        ELSE [table |-> table \cup {row}, err |-> Ok, rows |-> <<row>>]

\* a delete_tags that removes nothing
delete_tags_none(table, article_id) == table

\* delete_tags: DELETE FROM article_tags WHERE article_id = $1
delete_tags(table, article_id) == table \ TagsOf(table, article_id)

\* a cascade that forgets the favorites
delete_favorites_none(table, article_id) == table

\* delete_favorites: DELETE FROM favorite_articles WHERE article_id = $1
delete_favorites(table, article_id) == table \ FavoritesOf(table, article_id)

\* the lazy map(add_tag).collect::<Result<Vec<_>>>() of replace_tags: tags are
\* added in order and the first Err ends the iteration
RECURSIVE AddTags(_, _, _, _, _)
AddTags(table, article_id, tags, i, inserted) ==
    IF i > Len(tags) THEN [table |-> table, err |-> Ok, rows |-> inserted]
    ELSE LET r == add_tag(table, article_id, tags[i])
         IN  IF r.err # Ok THEN [table |-> r.table, err |-> r.err, rows |-> <<>>]
             ELSE AddTags(r.table, article_id, tags, i + 1, inserted \o r.rows)

replace_tags(table, article_id, tags) ==
    AddTags(delete_tags(table, article_id), article_id, tags, 1, <<>>)

\* a count without its WHERE clause
get_favorites_count_unfiltered(favorites, article_id) == Cardinality(favorites)

\* get_favorites_count: SELECT COUNT(*) ... WHERE article_id = $1
get_favorites_count(favorites, article_id) ==
    Cardinality(FavoritesOf(favorites, article_id))

\* the left join of the viewer's user row with favorite_articles
get_favorited(favorites, article_id, user_id) ==
    [user_id |-> user_id, article_id |-> article_id] \in favorites

\* a join on followers with follower and followed exchanged
get_favorited_and_following_reversed(db, article_id, author_id, user_id) ==
    << [user_id |-> user_id, article_id |-> article_id] \in db.favorite_articles,
       [user_id |-> user_id, follower_id |-> author_id] \in db.followers >>

\* the left joins of the viewer's user row with favorite_articles and followers
get_favorited_and_following(db, article_id, author_id, user_id) ==
    << [user_id |-> user_id, article_id |-> article_id] \in db.favorite_articles,
       [user_id |-> author_id, follower_id |-> user_id] \in db.followers >>

\* select_tags_on_article: the tag names of the article, as a set; the
\* handlers return them in whatever order the query yields
select_tags_on_article(table, article_id) ==
    { t.tag_name : t \in TagsOf(table, article_id) }

TagNamesOf(rows) == [ i \in 1..Len(rows) |-> rows[i].tag_name ]

\* a lookup that compares only the encoded id the slug starts with
BySlug_id_prefix(db, slug) ==
    { a \in db.articles : SubSeq(a.slug, 1, BlobLen) = SubSeq(slug, 1, BlobLen) }

\* articles::table.filter(articles::slug.eq(slug)): the matching rows
BySlug(db, slug) == { a \in db.articles : a.slug = slug }

\* ---------------------------------------------------------- the handlers
\* Each handler is the set of outcomes of handling one message on database
\* db: the database it leaves, its Result's kind, and the response of an Ok.

\* ArticleResponseInner, the author's profile reduced to the author's id
Projection(article, tag_list, favorited, favorites_count, following) ==
    [ slug |-> article.slug, title |-> article.title,
      description |-> article.description, body |-> article.body,
      tag_list |-> tag_list, favorited |-> favorited,
      favorites_count |-> favorites_count,
      author |-> article.author_id, following |-> following ]

Outcome(db, status, response) == [db |-> db, status |-> status, response |-> response]

\* an Err returned before anything was written
Failed(db, status) == { Outcome(db, status, None) }

\* Handler<CreateArticleOuter>::handle.  new_article_id is the value
\* Uuid::new_v4() drew; the insert fails on the primary key when that id is
\* taken.  The article row is inserted before the tags are replaced and stays
\* when replace_tags fails.
HandleCreateArticle(db, author, new_article_id, title, description, body, tag_list) ==
    LET slug == generate_slug(new_article_id, title)
        new_article == [ id |-> new_article_id, author_id |-> author, slug |-> slug,
                         title |-> title, description |-> description, body |-> body ]
        replaced == replace_tags(db.article_tags, new_article_id, tag_list)
        written == [db EXCEPT !.articles = @ \cup {new_article},
                              !.article_tags = replaced.table]
    IN  IF ArticleIdTaken(db, new_article_id)
        THEN Failed(db, ErrorFrom("UniqueViolation"))
        ELSE IF replaced.err # Ok
        THEN Failed(written, replaced.err)
        ELSE { Outcome(written, Ok,
                   Projection(new_article, TagNamesOf(replaced.rows), FALSE, 0, FALSE)) }

\* the end shared by GetArticle, FavoriteArticle and UnfavoriteArticle:
\* get_favorites_count, select_tags_on_article, and the Ok response
Respond(db, article, ff) ==
    { Outcome(db, Ok,
          Projection(article, tags, ff[1],
                     get_favorites_count(db.favorite_articles, article.id), ff[2])) :
        tags \in Orderings(select_tags_on_article(db.article_tags, article.id)) }

\* Handler<GetArticle>::handle; auth is None for an anonymous request
HandleGetArticle(db, auth, slug) ==
    IF BySlug(db, slug) = {}
    THEN Failed(db, ErrorFrom("NotFound"))
    ELSE UNION { Respond(db, article,
                     IF auth # None
                     THEN get_favorited_and_following(db, article.id, article.author_id,
                                                      Unwrap(auth))
                     ELSE <<FALSE, FALSE>>) :
                 article \in BySlug(db, slug) }

\* an Option field of ArticleChange applied to a column: None leaves it
Changed(old, new) == IF new = None THEN old ELSE Unwrap(new)

\* a changeset whose description and body reach each other's column
ApplyChange_swapped(article, change) ==
    [ article EXCEPT !.slug = Changed(@, change.slug),
                     !.title = Changed(@, change.title),
                     !.description = Changed(@, change.body),
                     !.body = Changed(@, change.description) ]

\* diesel::update(articles.find(id)).set(&article_change): the row as updated
ApplyChange(article, change) ==
    [ article EXCEPT !.slug = Changed(@, change.slug),
                     !.title = Changed(@, change.title),
                     !.description = Changed(@, change.description),
                     !.body = Changed(@, change.body) ]

\* a changeset whose fields are all None: diesel refuses to build the UPDATE
\* (QueryBuilderError), which is neither NotFound nor a uniqueness violation
IsNoop(change) ==
    change.slug = None /\ change.title = None
        /\ change.description = None /\ change.body = None

\* an Update that writes the new title and keeps the slug of the old one
UpdateFound_stale_slug(db, auth, found, title, description, body, tag_list) ==
    LET article_change ==
            [ slug |-> None,
              title |-> title, description |-> description, body |-> body ]
        article == ApplyChange(found, article_change)
        updated == [db EXCEPT !.articles = (@ \ {found}) \cup {article}]
        favorites_count == get_favorites_count(db.favorite_articles, article.id)
        favorited == get_favorited(db.favorite_articles, article.id, auth)
    IN  IF auth # found.author_id THEN Failed(db, Forbidden)
        ELSE IF IsNoop(article_change) THEN Failed(db, ErrorFrom("QueryBuilderError"))
        ELSE IF tag_list # None
        THEN LET replaced == replace_tags(db.article_tags, article.id, Unwrap(tag_list))
                 written == [updated EXCEPT !.article_tags = replaced.table]
             IN  IF replaced.err # Ok
                 THEN Failed(written, replaced.err)
                 ELSE { Outcome(written, Ok,
                            Projection(article, TagNamesOf(replaced.rows),
                                       favorited, favorites_count, FALSE)) }
        ELSE { Outcome(updated, Ok,
                   Projection(article, tags, favorited, favorites_count, FALSE)) :
                 tags \in Orderings(select_tags_on_article(db.article_tags, article.id)) }

\* Handler<UpdateArticleOuter>::handle for the article the lookup found
UpdateFound(db, auth, found, title, description, body, tag_list) ==
    LET article_change ==
            [ slug |-> IF title # None
                       THEN Some(generate_slug(found.id, Unwrap(title)))
                       ELSE None,
              title |-> title, description |-> description, body |-> body ]
        article == ApplyChange(found, article_change)
        updated == [db EXCEPT !.articles = (@ \ {found}) \cup {article}]
        favorites_count == get_favorites_count(db.favorite_articles, article.id)
        favorited == get_favorited(db.favorite_articles, article.id, auth)
    IN  IF auth # found.author_id THEN Failed(db, Forbidden)
        ELSE IF IsNoop(article_change) THEN Failed(db, ErrorFrom("QueryBuilderError"))
        ELSE IF tag_list # None
        THEN LET replaced == replace_tags(db.article_tags, article.id, Unwrap(tag_list))
                 written == [updated EXCEPT !.article_tags = replaced.table]
             IN  IF replaced.err # Ok
                 THEN Failed(written, replaced.err)
                 ELSE { Outcome(written, Ok,
                            Projection(article, TagNamesOf(replaced.rows),
                                       favorited, favorites_count, FALSE)) }
        ELSE { Outcome(updated, Ok,
                   Projection(article, tags, favorited, favorites_count, FALSE)) :
                 tags \in Orderings(select_tags_on_article(db.article_tags, article.id)) }

\* Handler<UpdateArticleOuter>::handle; title, description, body and tag_list
\* are None when the patch leaves them out
HandleUpdateArticle(db, auth, slug, title, description, body, tag_list) ==
    IF BySlug(db, slug) = {}
    THEN Failed(db, ErrorFrom("NotFound"))
    ELSE UNION { UpdateFound(db, auth, found, title, description, body, tag_list) :
                 found \in BySlug(db, slug) }

\* a Delete without the author check
HandleDeleteArticle_unchecked(db, auth, slug) ==
    IF BySlug(db, slug) = {}
    THEN Failed(db, ErrorFrom("NotFound"))
    ELSE { Outcome(
             [db EXCEPT
                !.article_tags = delete_tags(@, article.id),
                !.favorite_articles = delete_favorites(@, article.id),
                !.articles = { a \in @ : a.id # article.id }],
             Ok, None) :
           article \in BySlug(db, slug) }

\* a Delete that runs its DELETE statements whether or not the lookup found
\* the article, and so succeeds on an unknown slug
HandleDeleteArticle_unknown_ok(db, auth, slug) ==
    IF BySlug(db, slug) = {}
    THEN { Outcome(db, Ok, None) }
    ELSE { IF auth # article.author_id
           THEN Outcome(db, Forbidden, None)
           ELSE Outcome(
                  [db EXCEPT
                     !.article_tags = delete_tags(@, article.id),
                     !.favorite_articles = delete_favorites(@, article.id),
                     !.articles = { a \in @ : a.id # article.id }],
                  Ok, None) :
           article \in BySlug(db, slug) }

\* Handler<DeleteArticle>::handle: tags, then favorites, then the article row
HandleDeleteArticle(db, auth, slug) ==
    IF BySlug(db, slug) = {}
    THEN Failed(db, ErrorFrom("NotFound"))
    ELSE { IF auth # article.author_id
           THEN Outcome(db, Forbidden, None)
           ELSE Outcome(
                  [db EXCEPT
                     !.article_tags = delete_tags(@, article.id),
                     !.favorite_articles = delete_favorites(@, article.id),
                     !.articles = { a \in @ : a.id # article.id }],
                  Ok, None) :
           article \in BySlug(db, slug) }

\* a Favorite whose INSERT ignores a conflict
FavoriteFound_or_ignore(db, auth, article) ==
    LET row == [user_id |-> auth, article_id |-> article.id]
        inserted == [db EXCEPT !.favorite_articles = @ \cup {row}]
    IN  Respond(inserted, article,
            get_favorited_and_following(inserted, article.id, article.author_id, auth))

\* Handler<FavoriteArticle>::handle for the article the lookup found: a plain
\* INSERT, which the uniqueness of (user_id, article_id) rejects when the row
\* is there already
FavoriteFound(db, auth, article) ==
    LET row == [user_id |-> auth, article_id |-> article.id]
        inserted == [db EXCEPT !.favorite_articles = @ \cup {row}]
    IN  IF FavoriteTaken(db, row)
        THEN Failed(db, ErrorFrom("UniqueViolation"))
        ELSE Respond(inserted, article,
                 get_favorited_and_following(inserted, article.id, article.author_id, auth))

\* Handler<FavoriteArticle>::handle
HandleFavoriteArticle(db, auth, slug) ==
    IF BySlug(db, slug) = {}
    THEN Failed(db, ErrorFrom("NotFound"))
    ELSE UNION { FavoriteFound(db, auth, article) : article \in BySlug(db, slug) }

\* an Unfavorite whose DELETE lacks the user_id filter
UnfavoriteFound_every_user(db, auth, article) ==
    LET deleted == [db EXCEPT !.favorite_articles = delete_favorites(@, article.id)]
    IN  Respond(deleted, article,
            get_favorited_and_following(deleted, article.id, article.author_id, auth))

\* an Unfavorite that reports NotFound when its DELETE removed no row
UnfavoriteFound_requires_row(db, auth, article) ==
    LET row == [user_id |-> auth, article_id |-> article.id]
        deleted == [db EXCEPT !.favorite_articles = @ \ {row}]
    IN  IF row \notin db.favorite_articles
        THEN Failed(db, ErrorFrom("NotFound"))
        ELSE Respond(deleted, article,
                 get_favorited_and_following(deleted, article.id, article.author_id, auth))

\* Handler<UnfavoriteArticle>::handle for the article the lookup found
UnfavoriteFound(db, auth, article) ==
    LET deleted == [db EXCEPT !.favorite_articles =
                        @ \ {[user_id |-> auth, article_id |-> article.id]}]
    IN  Respond(deleted, article,
            get_favorited_and_following(deleted, article.id, article.author_id, auth))

\* Handler<UnfavoriteArticle>::handle
HandleUnfavoriteArticle(db, auth, slug) ==
    IF BySlug(db, slug) = {}
    THEN Failed(db, ErrorFrom("NotFound"))
    ELSE UNION { UnfavoriteFound(db, auth, article) : article \in BySlug(db, slug) }

\* ------------------------------------------------------ the state machine
\* the contents of table followers, which no handler here writes: any set of
\* rows in which nobody follows themselves
FollowTables ==
    SUBSET { f \in [user_id : Users, follower_id : Users] : f.user_id # f.follower_id }

\* every handler runs as a whole: none is at work one statement at a time
Whole == ops = <<>> /\ copies = <<>>

Init ==
    /\ articles = {}
    /\ article_tags = {}
    /\ favorite_articles = {}
    /\ followers \in FollowTables
    /\ Whole

\* the handler's writes reach the tables
Commit(outcome) ==
    /\ articles' = outcome.db.articles
    /\ article_tags' = outcome.db.article_tags
    /\ favorite_articles' = outcome.db.favorite_articles
    /\ followers' = outcome.db.followers
    /\ UNCHANGED <<ops, copies>>

\* the slugs requests are made with: every slug some article may carry
Slugs == { generate_slug(u, t) : u \in Uuids, t \in Titles }

CreateArticle ==
    \E author \in Users, id \in Uuids, title \in Titles, description \in Texts,
       body \in Texts, tag_list \in TagLists :
       \E outcome \in HandleCreateArticle(DB, author, id, title, description, body, tag_list) :
          Commit(outcome)

GetArticle ==
    \E auth \in Opt(Users), slug \in Slugs :
       \E outcome \in HandleGetArticle(DB, auth, slug) : Commit(outcome)

UpdateArticle ==
    \E auth \in Users, slug \in Slugs, title \in Opt(Titles), description \in Opt(Texts),
       body \in Opt(Texts), tag_list \in Opt(TagLists) :
       \E outcome \in HandleUpdateArticle(DB, auth, slug, title, description, body, tag_list) :
          Commit(outcome)

DeleteArticle ==
    \E auth \in Users, slug \in Slugs :
       \E outcome \in HandleDeleteArticle(DB, auth, slug) : Commit(outcome)

FavoriteArticle ==
    \E auth \in Users, slug \in Slugs :
       \E outcome \in HandleFavoriteArticle(DB, auth, slug) : Commit(outcome)

UnfavoriteArticle ==
    \E auth \in Users, slug \in Slugs :
       \E outcome \in HandleUnfavoriteArticle(DB, auth, slug) : Commit(outcome)

Next ==
    \/ CreateArticle
    \/ GetArticle
    \/ UpdateArticle
    \/ DeleteArticle
    \/ FavoriteArticle
    \/ UnfavoriteArticle

Spec == Init /\ [][Next]_vars

\* ------------------------------------------------------------ properties
\* what the quantifiers of the properties range over
Articles(slug) == BySlug(DB, slug)
Favorited(viewer, article) ==
    [user_id |-> viewer, article_id |-> article.id] \in favorite_articles
FavoritesCount(article) == Cardinality(FavoritesOf(favorite_articles, article.id))

\* C1: no two distinct articles have the same slug, also when their titles
\* are identical, whatever Create and Update (and the other handlers) did.
SlugsUnique ==
    \A a, b \in articles : a # b => a.slug # b.slug

\* C1 witness: two articles with identical titles are stored.
TwoArticlesSameTitle ==
    \E a, b \in articles : a.id # b.id /\ a.title = b.title

\* C2 (as claimed): for any article and any list T of tag names,
\* replace_tags(id, T) succeeds and select_tags_on_article(id) then returns
\* exactly the set of names in T.
ReplaceTagsThenSelect ==
    \A a \in articles, T \in TagLists :
        LET replaced == replace_tags(article_tags, a.id, T)
        IN  /\ replaced.err = Ok
            /\ select_tags_on_article(replaced.table, a.id) = Range(T)

\* C3 (as claimed): add_tag of a pair that exists returns the existing row
\* as a success and leaves the table as it is.
AddTagIdempotent ==
    \A row \in article_tags :
        LET added == add_tag(article_tags, row.article_id, row.tag_name)
        IN  /\ added.err = Ok
            /\ added.rows = <<row>>
            /\ added.table = article_tags

\* C4: after a Delete by the author returns Ok, no tag row and no favorite
\* row of the article is left, the article row is gone, and GetArticle on its
\* slug fails with NotFound for every viewer.
DeleteCascades ==
    \A auth \in Users, slug \in Slugs :
    \A a \in Articles(slug) :
    \A deleted \in HandleDeleteArticle(DB, auth, slug) :
        deleted.status = Ok =>
            /\ auth = a.author_id
            /\ TagsOf(deleted.db.article_tags, a.id) = {}
            /\ FavoritesOf(deleted.db.favorite_articles, a.id) = {}
            /\ \A b \in deleted.db.articles : b.id # a.id
            /\ \A viewer \in Opt(Users) :
               \A got \in HandleGetArticle(deleted.db, viewer, slug) :
                   got.status = NotFound

\* C4 witness: the author deletes an article that has a tag and a favorite.
DeleteOfTaggedFavorited ==
    \E slug \in Slugs : \E a \in Articles(slug) :
        /\ TagsOf(article_tags, a.id) # {}
        /\ FavoritesOf(favorite_articles, a.id) # {}
        /\ \E deleted \in HandleDeleteArticle(DB, a.author_id, slug) :
              deleted.status = Ok /\ deleted.db # DB

\* the patches of an Update request
Patches == Opt(Titles) \X Opt(Texts) \X Opt(Texts) \X Opt(TagLists)

\* C5: for every article and every viewer who is not its author, Update and
\* Delete fail with Forbidden and leave every row of every table as it was.
NonAuthorForbidden ==
    \A viewer \in Users, slug \in Slugs :
    \A a \in Articles(slug) :
        viewer # a.author_id =>
            /\ \A p \in Patches :
               \A updated \in HandleUpdateArticle(DB, viewer, slug, p[1], p[2], p[3], p[4]) :
                   updated.status = Forbidden /\ updated.db = DB
            /\ \A deleted \in HandleDeleteArticle(DB, viewer, slug) :
                   deleted.status = Forbidden /\ deleted.db = DB

\* C5 witness: a non-author is refused the Update and the Delete of an article
\* that has a tag and a favorite to lose.
NonAuthorRefused ==
    \E viewer \in Users, slug \in Slugs : \E a \in Articles(slug) :
        /\ viewer # a.author_id
        /\ TagsOf(article_tags, a.id) # {}
        /\ FavoritesOf(favorite_articles, a.id) # {}
        /\ \E deleted \in HandleDeleteArticle(DB, viewer, slug) : deleted.status = Forbidden
        /\ \E p \in Patches :
           \E updated \in HandleUpdateArticle(DB, viewer, slug, p[1], p[2], p[3], p[4]) :
               updated.status = Forbidden

\* C6: for an article the viewer has not favorited, Favorite then Unfavorite
\* by that viewer both succeed, the Unfavorite returns favorited = false and
\* the favorites_count of before the Favorite, and the favorite rows are those
\* of before the Favorite.
FavoriteThenUnfavorite ==
    \A viewer \in Users, slug \in Slugs :
    \A a \in Articles(slug) :
        ~Favorited(viewer, a) =>
            \A fav \in HandleFavoriteArticle(DB, viewer, slug) :
                /\ fav.status = Ok
                /\ \A unfav \in HandleUnfavoriteArticle(fav.db, viewer, slug) :
                      /\ unfav.status = Ok
                      /\ unfav.response.favorited = FALSE
                      /\ unfav.response.favorites_count = FavoritesCount(a)
                      /\ unfav.db.favorite_articles = favorite_articles

\* C6 witness: a viewer favorites and unfavorites an article that another user
\* has favorited.
FavoriteUnfavoriteRoundTrip ==
    \E viewer \in Users, slug \in Slugs : \E a \in Articles(slug) :
        /\ ~Favorited(viewer, a)
        /\ FavoritesCount(a) > 0
        /\ \E fav \in HandleFavoriteArticle(DB, viewer, slug) :
              /\ fav.status = Ok
              /\ fav.db.favorite_articles # favorite_articles
              /\ \E unfav \in HandleUnfavoriteArticle(fav.db, viewer, slug) :
                    unfav.status = Ok

\* C7: Favorite by a viewer who has a favorite row for the article fails with
\* Conflict and leaves every row (so also favorites_count) as it was.
FavoriteTwiceConflict ==
    \A viewer \in Users, slug \in Slugs :
    \A a \in Articles(slug) :
        Favorited(viewer, a) =>
            \A fav \in HandleFavoriteArticle(DB, viewer, slug) :
                /\ fav.status = Conflict
                /\ fav.db = DB
                /\ get_favorites_count(fav.db.favorite_articles, a.id) = FavoritesCount(a)

\* C7 witness: a viewer who has favorited an article favorites it again.
FavoriteAgain ==
    \E viewer \in Users, slug \in Slugs : \E a \in Articles(slug) :
        /\ Favorited(viewer, a)
        /\ \E fav \in HandleFavoriteArticle(DB, viewer, slug) : fav.status = Conflict

\* C8: a successful Favorite by V adds exactly the row (V, article) and
\* changes nothing else; GetArticle by V then returns favorited = true and a
\* favorites_count one higher than before the Favorite.
FavoriteAddsOneRow ==
    \A viewer \in Users, slug \in Slugs :
    \A a \in Articles(slug) :
    \A fav \in HandleFavoriteArticle(DB, viewer, slug) :
        fav.status = Ok =>
            LET row == [user_id |-> viewer, article_id |-> a.id]
            IN  /\ row \notin favorite_articles
                /\ fav.db = [DB EXCEPT !.favorite_articles = @ \cup {row}]
                /\ \A got \in HandleGetArticle(fav.db, Some(viewer), slug) :
                      /\ got.status = Ok
                      /\ got.response.favorited = TRUE
                      /\ got.response.favorites_count = FavoritesCount(a) + 1

\* C8 witness: a successful Favorite while another article has a favorite
\* and this one has none.
FavoriteFirst ==
    \E viewer \in Users, slug \in Slugs : \E a \in Articles(slug) :
        /\ FavoritesCount(a) = 0
        /\ favorite_articles # {}
        /\ \E fav \in HandleFavoriteArticle(DB, viewer, slug) :
              /\ fav.status = Ok
              /\ \E got \in HandleGetArticle(fav.db, Some(viewer), slug) :
                    got.status = Ok /\ got.response.favorites_count = 1

\* C9: GetArticle, UpdateArticle, DeleteArticle, FavoriteArticle and
\* UnfavoriteArticle with a slug no article has fail with NotFound and leave
\* every row as it was.
UnknownSlugNotFound ==
    \A slug \in Slugs :
        Articles(slug) = {} =>
            LET Missing(outcomes) ==
                    \A o \in outcomes : o.status = NotFound /\ o.db = DB
            IN  /\ \A auth \in Opt(Users) : Missing(HandleGetArticle(DB, auth, slug))
                /\ \A auth \in Users :
                      /\ \A p \in Patches :
                            Missing(HandleUpdateArticle(DB, auth, slug, p[1], p[2], p[3], p[4]))
                      /\ Missing(HandleDeleteArticle(DB, auth, slug))
                      /\ Missing(HandleFavoriteArticle(DB, auth, slug))
                      /\ Missing(HandleUnfavoriteArticle(DB, auth, slug))

\* C9 witness: articles, tags and favorites are stored and a request names a
\* slug none of the articles has.
UnknownSlugRequested ==
    /\ articles # {} /\ article_tags # {} /\ favorite_articles # {}
    /\ \E slug \in Slugs, auth \in Users :
          /\ Articles(slug) = {}
          /\ \E o \in HandleFavoriteArticle(DB, auth, slug) : o.status = NotFound

\* C10: Unfavorite by a viewer without a favorite row for the article
\* succeeds, changes no row, and returns favorited = false and the number of
\* favorite rows of the article; a second Unfavorite leaves the state of the
\* first.
UnfavoriteNoop ==
    \A viewer \in Users, slug \in Slugs :
    \A a \in Articles(slug) :
    \A unfav \in HandleUnfavoriteArticle(DB, viewer, slug) :
        /\ ~Favorited(viewer, a) =>
              /\ unfav.status = Ok
              /\ unfav.db = DB
              /\ unfav.response.favorited = FALSE
              /\ unfav.response.favorites_count = FavoritesCount(a)
        /\ \A again \in HandleUnfavoriteArticle(unfav.db, viewer, slug) :
              again.status = unfav.status /\ again.db = unfav.db

\* C10 witness: a viewer without a favorite row unfavorites an article that
\* another user has favorited.
UnfavoriteWithoutRow ==
    \E viewer \in Users, slug \in Slugs : \E a \in Articles(slug) :
        /\ ~Favorited(viewer, a)
        /\ FavoritesCount(a) > 0
        /\ \E unfav \in HandleUnfavoriteArticle(DB, viewer, slug) : unfav.status = Ok

Following(viewer, article) ==
    [user_id |-> article.author_id, follower_id |-> viewer] \in followers

\* C11: GetArticle on an existing article succeeds with favorites_count the
\* number of favorite rows of the article; for a viewer V, favorited tells
\* whether the row (V, article) exists and following whether the follow row
\* (follower V, followed author) exists; for no viewer both flags are false.
GetArticleAnnotations ==
    \A slug \in Slugs :
    \A a \in Articles(slug) :
        /\ \A viewer \in Users :
           \A got \in HandleGetArticle(DB, Some(viewer), slug) :
               /\ got.status = Ok
               /\ got.response.favorites_count = FavoritesCount(a)
               /\ got.response.favorited = Favorited(viewer, a)
               /\ got.response.following = Following(viewer, a)
        /\ \A got \in HandleGetArticle(DB, None, slug) :
               /\ got.status = Ok
               /\ got.response.favorites_count = FavoritesCount(a)
               /\ got.response.favorited = FALSE
               /\ got.response.following = FALSE

\* C11 witness: an article is read by a viewer who has favorited it and
\* follows its author without being followed back, and by nobody in particular.
GetByFollowerAndAnonymous ==
    \E viewer \in Users, slug \in Slugs : \E a \in Articles(slug) :
        /\ Favorited(viewer, a)
        /\ Following(viewer, a)
        /\ [user_id |-> viewer, follower_id |-> a.author_id] \notin followers
        /\ \E got \in HandleGetArticle(DB, Some(viewer), slug) :
              got.status = Ok /\ got.response.favorited /\ got.response.following
        /\ \E got \in HandleGetArticle(DB, None, slug) :
              got.status = Ok /\ ~got.response.favorited /\ ~got.response.following

\* ------------------------------------------- updates over several texts
\* Create, Update and Favorite with descriptions and bodies drawn from one
\* text more than Texts holds, so that a field an Update leaves out has a
\* value the Update could have changed.  User 1 writes every article and
\* nobody follows anybody.
MoreTexts == 1..(NumTexts + 1)

InitUpdate ==
    /\ articles = {}
    /\ article_tags = {}
    /\ favorite_articles = {}
    /\ followers = {}
    /\ Whole

CreateArticleTexts ==
    \E author \in {1}, id \in Uuids, title \in Titles, description \in MoreTexts,
       body \in MoreTexts, tag_list \in TagLists :
       \E outcome \in HandleCreateArticle(DB, author, id, title, description, body, tag_list) :
          Commit(outcome)

UpdateArticleTexts ==
    \E auth \in Users, slug \in Slugs, title \in Opt(Titles),
       description \in Opt(MoreTexts), body \in Opt(MoreTexts), tag_list \in Opt(TagLists) :
       \E outcome \in HandleUpdateArticle(DB, auth, slug, title, description, body, tag_list) :
          Commit(outcome)

NextUpdate ==
    \/ CreateArticleTexts
    \/ UpdateArticleTexts
    \/ FavoriteArticle

SpecUpdate == InitUpdate /\ [][NextUpdate]_vars

PatchesTexts == Opt(Titles) \X Opt(MoreTexts) \X Opt(MoreTexts) \X Opt(TagLists)

\* C14: a successful Update by the author leaves each of title, description
\* and body that the patch lacks as it was and sets the others; the slug is
\* generate_slug(the article's id, the new title) when the patch has a title
\* and is otherwise unchanged; without tag_list no tag row changes; the
\* article's id and author, the favorite rows and the other articles stay.
UpdateChangesOnlyPatch ==
    \A slug \in Slugs :
    \A a \in Articles(slug) :
    \A p \in PatchesTexts :
    \A updated \in HandleUpdateArticle(DB, a.author_id, slug, p[1], p[2], p[3], p[4]) :
        updated.status = Ok =>
            LET after == { b \in updated.db.articles : b.id = a.id }
            IN  /\ Cardinality(after) = 1
                /\ \A b \in after :
                      /\ b.author_id = a.author_id
                      /\ b.title = (IF p[1] = None THEN a.title ELSE p[1][1])
                      /\ b.description = (IF p[2] = None THEN a.description ELSE p[2][1])
                      /\ b.body = (IF p[3] = None THEN a.body ELSE p[3][1])
                      /\ b.slug = (IF p[1] = None THEN a.slug
                                   ELSE generate_slug(a.id, p[1][1]))
                /\ p[4] = None => updated.db.article_tags = article_tags
                /\ updated.db.favorite_articles = favorite_articles
                /\ updated.db.articles \ after = articles \ {a}

\* C14 witness: the author changes only the description of an article that
\* has a tag and a favorite and a body unlike the new description, while
\* another article is stored.
UpdateOfDescriptionOnly ==
    \E slug \in Slugs : \E a \in Articles(slug) : \E d \in MoreTexts :
        /\ d # a.description /\ d # a.body
        /\ TagsOf(article_tags, a.id) # {}
        /\ FavoritesOf(favorite_articles, a.id) # {}
        /\ \E b \in articles : b.id # a.id
        /\ \E updated \in HandleUpdateArticle(DB, a.author_id, slug, None, Some(d), None, None) :
              updated.status = Ok /\ updated.db # DB

\* C19: every stored article's slug is generate_slug(its id, its title),
\* whatever Create and Update (and the other handlers) did.
SlugOfOwnIdAndTitle ==
    \A a \in articles : a.slug = generate_slug(a.id, a.title)

\* C19 witness: two articles are stored, one of them under a title an Update
\* can change into the other one's.
RetitleToOtherTitle ==
    \E slug \in Slugs : \E a \in Articles(slug) : \E b \in articles :
        /\ b.id # a.id /\ b.title # a.title
        /\ \E updated \in HandleUpdateArticle(DB, a.author_id, slug, Some(b.title),
                                              None, None, None) :
              /\ updated.status = Ok
              /\ \E c \in updated.db.articles : c.id = a.id /\ c.title = b.title

\* C20: after a successful Update that returns another slug, GetArticle,
\* Update, Delete, Favorite and Unfavorite with the old slug fail with
\* NotFound, and the returned slug finds exactly the article of the same id
\* and author, with the favorite rows it had and the tag rows the Update left
\* (those it had, when the patch has no tag_list).
OldSlugGone ==
    \A slug \in Slugs :
    \A a \in Articles(slug) :
    \A p \in Patches :
    \A updated \in HandleUpdateArticle(DB, a.author_id, slug, p[1], p[2], p[3], p[4]) :
        (updated.status = Ok /\ updated.response.slug # slug) =>
            LET db == updated.db
                new_slug == updated.response.slug
                Missing(outcomes) == \A o \in outcomes : o.status = NotFound
            IN  /\ \A auth \in Opt(Users) : Missing(HandleGetArticle(db, auth, slug))
                /\ \A auth \in Users :
                      /\ \A q \in Patches :
                            Missing(HandleUpdateArticle(db, auth, slug, q[1], q[2], q[3], q[4]))
                      /\ Missing(HandleDeleteArticle(db, auth, slug))
                      /\ Missing(HandleFavoriteArticle(db, auth, slug))
                      /\ Missing(HandleUnfavoriteArticle(db, auth, slug))
                /\ Cardinality(BySlug(db, new_slug)) = 1
                /\ \A b \in BySlug(db, new_slug) :
                      b.id = a.id /\ b.author_id = a.author_id
                /\ FavoritesOf(db.favorite_articles, a.id)
                      = FavoritesOf(favorite_articles, a.id)
                /\ p[4] = None =>
                      TagsOf(db.article_tags, a.id) = TagsOf(article_tags, a.id)
                /\ \A viewer \in Opt(Users) :
                   \A got \in HandleGetArticle(db, viewer, new_slug) :
                      /\ got.status = Ok
                      /\ got.response.author = a.author_id
                      /\ got.response.favorites_count = FavoritesCount(a)
                      /\ Range(got.response.tag_list)
                            = select_tags_on_article(db.article_tags, a.id)

\* C20 witness: the author retitles an article that has a tag and a favorite,
\* the Update returns another slug, and GetArticle with the old slug fails.
RetitledUnderNewSlug ==
    \E slug \in Slugs : \E a \in Articles(slug) : \E t \in Titles :
        /\ TagsOf(article_tags, a.id) # {}
        /\ FavoritesOf(favorite_articles, a.id) # {}
        /\ \E updated \in HandleUpdateArticle(DB, a.author_id, slug, Some(t), None, None, None) :
              /\ updated.status = Ok
              /\ updated.response.slug # slug
              /\ \E got \in HandleGetArticle(updated.db, None, slug) : got.status = NotFound
              /\ \E got \in HandleGetArticle(updated.db, None, updated.response.slug) :
                    got.status = Ok

\* ------------------------------------------- any contents of followers
\* The handlers over a table followers that may hold any rows, also rows in
\* which a user follows themselves (the table is written elsewhere).
AnyFollowTables == SUBSET [user_id : Users, follower_id : Users]

InitAnyFollows ==
    /\ articles = {}
    /\ article_tags = {}
    /\ favorite_articles = {}
    /\ followers \in AnyFollowTables
    /\ Whole

SpecAnyFollows == InitAnyFollows /\ [][Next]_vars

Running == "Running"

\* a Delete that removes the article row before the rows that refer to it
DeleteOrder_article_first == <<"delete_article", "delete_tags", "delete_favorites">>

\* the statements of Handler<DeleteArticle>::handle after the lookup, in order
DeleteOrder == <<"delete_tags", "delete_favorites", "delete_article">>

\* the statement of a Delete after statement pc ("end" after the last)
AfterDelete(pc) ==
    LET i == CHOOSE j \in 1..Len(DeleteOrder) : DeleteOrder[j] = pc
    IN  IF i = Len(DeleteOrder) THEN "end" ELSE DeleteOrder[i + 1]

\* a handler about to execute its first statement on a message; slug is
\* empty and id is Some for a Create, which has no slug and draws the id;
\* found is the article row the handler holds, todo the tags still to add
Op(kind, auth, slug, id, title, description, body, tag_list) ==
    [ kind |-> kind, auth |-> auth, slug |-> slug, id |-> id, title |-> title,
      description |-> description, body |-> body, tag_list |-> tag_list,
      pc |-> IF kind = "Create" THEN "insert_article" ELSE "lookup",
      found |-> None, todo |-> <<>>, status |-> Running ]

\* the handler returns
Finish(op, status) == [op EXCEPT !.pc = "end", !.todo = <<>>, !.status = status]

Goto(op, pc) == IF pc = "end" THEN Finish(op, Ok) ELSE [op EXCEPT !.pc = pc]

\* what a statement leaves: the database, the handler, and the rows it inserted
Moved(db, op) ==
    [db |-> db, op |-> op, inserted |-> [article_tags |-> {}, favorite_articles |-> {}]]

\* the lookup by slug, and the author check of Update and Delete
StmtLookup(db, op) ==
    IF BySlug(db, op.slug) = {}
    THEN { Moved(db, Finish(op, ErrorFrom("NotFound"))) }
    ELSE { IF op.kind \in {"Update", "Delete"} /\ op.auth # article.author_id
           THEN Moved(db, Finish(op, Forbidden))
           ELSE Moved(db, [op EXCEPT !.found = Some(article),
                                     !.pc = CASE op.kind = "Update" -> "update_article"
                                              [] op.kind = "Delete" -> DeleteOrder[1]
                                              [] op.kind = "Favorite" -> "insert_favorite"
                                              [] op.kind = "Unfavorite" -> "delete_favorite"]) :
           article \in BySlug(db, op.slug) }

\* a Create that holds the article row back instead of inserting it
StmtInsertArticle_unwritten(db, op) ==
    LET new_article ==
            [ id |-> Unwrap(op.id), author_id |-> op.auth,
              slug |-> generate_slug(Unwrap(op.id), Unwrap(op.title)),
              title |-> Unwrap(op.title), description |-> Unwrap(op.description),
              body |-> Unwrap(op.body) ]
    IN  IF ArticleIdTaken(db, new_article.id)
        THEN { Moved(db, Finish(op, ErrorFrom("UniqueViolation"))) }
        ELSE { Moved(db, [op EXCEPT !.found = Some(new_article), !.pc = "delete_tags"]) }

\* Create's INSERT INTO articles
StmtInsertArticle(db, op) ==
    LET new_article ==
            [ id |-> Unwrap(op.id), author_id |-> op.auth,
              slug |-> generate_slug(Unwrap(op.id), Unwrap(op.title)),
              title |-> Unwrap(op.title), description |-> Unwrap(op.description),
              body |-> Unwrap(op.body) ]
    IN  IF ArticleIdTaken(db, new_article.id)
        THEN { Moved(db, Finish(op, ErrorFrom("UniqueViolation"))) }
        ELSE { Moved([db EXCEPT !.articles = @ \cup {new_article}],
                     [op EXCEPT !.found = Some(new_article), !.pc = "delete_tags"]) }

\* Update's UPDATE articles ... WHERE id = $1 RETURNING *, read with
\* get_result: NotFound when the row is gone
StmtUpdateArticle(db, op) ==
    LET found == Unwrap(op.found)
        article_change ==
            [ slug |-> IF op.title # None
                       THEN Some(generate_slug(found.id, Unwrap(op.title)))
                       ELSE None,
              title |-> op.title, description |-> op.description, body |-> op.body ]
        rows == { a \in db.articles : a.id = found.id }
    IN  IF IsNoop(article_change)
        THEN { Moved(db, Finish(op, ErrorFrom("QueryBuilderError"))) }
        ELSE IF rows = {}
        THEN { Moved(db, Finish(op, ErrorFrom("NotFound"))) }
        ELSE { Moved([db EXCEPT !.articles = (@ \ {row}) \cup {ApplyChange(row, article_change)}],
                     [op EXCEPT !.found = Some(ApplyChange(row, article_change)),
                                !.pc = IF op.tag_list # None THEN "delete_tags"
                                       ELSE "respond"]) :
               row \in rows }

\* the handler once its tags are replaced
AfterTags(op) ==
    IF op.kind = "Create" THEN Finish(op, Ok) ELSE [op EXCEPT !.todo = <<>>, !.pc = "respond"]

\* delete_tags, in a Delete or at the start of replace_tags
StmtDeleteTags(db, op) ==
    LET deleted == [db EXCEPT !.article_tags = delete_tags(@, Unwrap(op.found).id)]
    IN  IF op.kind = "Delete"
        THEN { Moved(deleted, Goto(op, AfterDelete("delete_tags"))) }
        ELSE IF Unwrap(op.tag_list) = <<>>
        THEN { Moved(deleted, AfterTags(op)) }
        ELSE { Moved(deleted, [op EXCEPT !.todo = Unwrap(op.tag_list), !.pc = "add_tag"]) }

\* one add_tag of replace_tags; its Err ends the handler
StmtAddTag(db, op) ==
    LET r == add_tag(db.article_tags, Unwrap(op.found).id, Head(op.todo))
        added == [db EXCEPT !.article_tags = r.table]
        inserted == [article_tags |-> Range(r.rows), favorite_articles |-> {}]
    IN  IF r.err # Ok
        THEN { [db |-> added, op |-> Finish(op, r.err), inserted |-> inserted] }
        ELSE { [db |-> added, inserted |-> inserted,
                op |-> IF Tail(op.todo) = <<>> THEN AfterTags(op)
                       ELSE [op EXCEPT !.todo = Tail(@)]] }

StmtDeleteFavorites(db, op) ==
    { Moved([db EXCEPT !.favorite_articles = delete_favorites(@, Unwrap(op.found).id)],
            Goto(op, AfterDelete("delete_favorites"))) }

\* Delete's DELETE FROM articles WHERE id = $1
StmtDeleteArticle(db, op) ==
    { Moved([db EXCEPT !.articles = { a \in @ : a.id # Unwrap(op.found).id }],
            Goto(op, AfterDelete("delete_article"))) }

\* Favorite's INSERT INTO favorite_articles
StmtInsertFavorite(db, op) ==
    LET row == [user_id |-> op.auth, article_id |-> Unwrap(op.found).id]
    IN  IF FavoriteTaken(db, row)
        THEN { Moved(db, Finish(op, ErrorFrom("UniqueViolation"))) }
        ELSE { [db |-> [db EXCEPT !.favorite_articles = @ \cup {row}],
                op |-> Goto(op, "respond"),
                inserted |-> [article_tags |-> {}, favorite_articles |-> {row}]] }

\* Unfavorite's DELETE FROM favorite_articles WHERE user_id = $1 AND article_id = $2
StmtDeleteFavorite(db, op) ==
    { Moved([db EXCEPT !.favorite_articles =
                 @ \ {[user_id |-> op.auth, article_id |-> Unwrap(op.found).id]}],
            Goto(op, "respond")) }

\* the queries that fill the response (flags, count, tags): they write nothing
StmtRespond(db, op) == { Moved(db, Finish(op, Ok)) }

\* the next statement of op, executed on db
Step(db, op) ==
    CASE op.pc = "lookup" -> StmtLookup(db, op)
      [] op.pc = "insert_article" -> StmtInsertArticle(db, op)
      [] op.pc = "update_article" -> StmtUpdateArticle(db, op)
      [] op.pc = "delete_tags" -> StmtDeleteTags(db, op)
      [] op.pc = "add_tag" -> StmtAddTag(db, op)
      [] op.pc = "delete_favorites" -> StmtDeleteFavorites(db, op)
      [] op.pc = "delete_article" -> StmtDeleteArticle(db, op)
      [] op.pc = "insert_favorite" -> StmtInsertFavorite(db, op)
      [] op.pc = "delete_favorite" -> StmtDeleteFavorite(db, op)
      [] op.pc = "respond" -> StmtRespond(db, op)

\* the copies of each row stored once a statement left `table` and inserted
\* the rows `inserted`: those of the rows it kept, and one more of each inserted
Stored(bag, table, inserted) ==
    [ r \in (DOMAIN bag) \cap table |-> bag[r] ] (+) SetToBag(inserted)

\* the handlers at work at once
NumProcs == 2
Procs == 1..NumProcs

\* the messages of the handlers at work: one title, so the slugs of the two
\* uuids; an Update carries a description, a tag list, both or neither
StepTitles == { TitlePool[1] }
StepSlugs == { generate_slug(u, t) : u \in Uuids, t \in StepTitles }

StepRequests ==
    { Op("Create", author, <<>>, Some(id), Some(title), Some(description), Some(body),
         Some(tag_list)) :
        author \in Users, id \in Uuids, title \in StepTitles, description \in Texts,
        body \in Texts, tag_list \in TagLists }
    \cup { Op("Update", auth, slug, None, None, description, None, tag_list) :
             auth \in Users, slug \in StepSlugs, description \in Opt(Texts),
             tag_list \in Opt(TagLists) }
    \cup { Op(kind, auth, slug, None, None, None, None, None) :
             kind \in {"Delete", "Favorite", "Unfavorite"}, auth \in Users,
             slug \in StepSlugs }

\* the article stored when the handlers start, if one is
StartArticle ==
    [ id |-> 0, author_id |-> 1, slug |-> generate_slug(0, TitlePool[1]),
      title |-> TitlePool[1], description |-> 1, body |-> 1 ]

\* the handlers `procs` start on an empty database or on one that holds
\* StartArticle with any tags and any favorites, every row stored once
InitSteps(procs) ==
    /\ articles \in { {}, {StartArticle} }
    /\ article_tags \in
          { { [article_id |-> a.id, tag_name |-> n] : a \in articles, n \in names } :
            names \in SUBSET TagNames }
    /\ favorite_articles \in
          { { [user_id |-> u, article_id |-> a.id] : a \in articles, u \in fans } :
            fans \in SUBSET Users }
    /\ followers = {}
    /\ ops \in [procs -> StepRequests]
    /\ copies = [ article_tags |-> SetToBag(article_tags),
                  favorite_articles |-> SetToBag(favorite_articles) ]

\* handler p executes its next statement
Statement(p) ==
    /\ ops[p].status = Running
    /\ \E s \in Step(DB, ops[p]) :
          /\ articles' = s.db.articles
          /\ article_tags' = s.db.article_tags
          /\ favorite_articles' = s.db.favorite_articles
          /\ followers' = s.db.followers
          /\ ops' = [ops EXCEPT ![p] = s.op]
          /\ copies' =
                [ article_tags |->
                      Stored(copies.article_tags, s.db.article_tags,
                             s.inserted.article_tags),
                  favorite_articles |->
                      Stored(copies.favorite_articles, s.db.favorite_articles,
                             s.inserted.favorite_articles) ]

\* the next statement of handler p fails in the storage and `?` returns the error
StatementFails(p) ==
    /\ ops[p].status = Running
    /\ ops' = [ops EXCEPT ![p] = Finish(@, ErrorFrom("DatabaseError"))]
    /\ UNCHANGED <<articles, article_tags, favorite_articles, followers, copies>>

NextSteps ==
    \/ \E p \in Procs : p \in DOMAIN ops /\ Statement(p)
    \/ \E p \in Procs : p \in DOMAIN ops /\ StatementFails(p)

\* one handler at work
InitSerial == InitSteps({1})
SpecSerial == InitSerial /\ [][NextSteps]_vars

\* NumProcs handlers at work at once
InitConcurrent == InitSteps(Procs)
SpecConcurrent == InitConcurrent /\ [][NextSteps]_vars

\* every tag row and every favorite row of db refers to an article row of db
NoDanglingRows(db) ==
    /\ \A t \in db.article_tags : \E a \in db.articles : a.id = t.article_id
    /\ \A f \in db.favorite_articles : \E a \in db.articles : a.id = f.article_id

\* C12: while one Delete is at work alone, and where it stops when a
\* statement fails, every tag row and every favorite row refers to an article
\* row that is stored; the tags of the article are gone before its favorites
\* are deleted, both are gone before the article row is deleted, and all
\* three are gone when the Delete returns Ok.
DeleteKeepsReferences ==
    \A p \in DOMAIN ops :
        ops[p].kind = "Delete" =>
            /\ NoDanglingRows(DB)
            /\ ops[p].found # None =>
                  LET id == ops[p].found[1].id
                      done == ops[p].status = Ok
                  IN  /\ (ops[p].pc \in {"delete_favorites", "delete_article"} \/ done)
                            => TagsOf(article_tags, id) = {}
                      /\ (ops[p].pc = "delete_article" \/ done)
                            => FavoritesOf(favorite_articles, id) = {}
                      /\ done => \A a \in articles : a.id # id

\* C12 witness: a Delete has removed tags and favorites and is about to
\* delete the article row, which is still stored.
DeleteBeforeLastStatement ==
    \E p \in DOMAIN ops :
        /\ ops[p].kind = "Delete" /\ ops[p].status = Running
        /\ ops[p].pc = "delete_article"
        /\ \E a \in articles : a.id = ops[p].found[1].id

\* C13 (as claimed): once every handler at work has returned and a Delete
\* among them has returned Ok, and the article it deleted is not stored, no tag
\* row and no favorite row refers to that article.
NoOrphansAfterDelete ==
    (\A p \in DOMAIN ops : ops[p].status # Running) =>
        \A p \in DOMAIN ops :
            (ops[p].kind = "Delete" /\ ops[p].status = Ok) =>
                LET id == ops[p].found[1].id
                IN  (\A a \in articles : a.id # id) =>
                        /\ TagsOf(article_tags, id) = {}
                        /\ FavoritesOf(favorite_articles, id) = {}

\* C17: whatever statements the handlers at work have executed, in whatever
\* order, every (article_id, tag_name) and every (user_id, article_id) is
\* stored at most once; and two add_tag of one pair leave one copy of it.
RowsStoredOnce ==
    /\ \A r \in DOMAIN copies.article_tags : copies.article_tags[r] <= 1
    /\ \A r \in DOMAIN copies.favorite_articles : copies.favorite_articles[r] <= 1
    /\ \A a \in articles, name \in TagNames :
          LET once == add_tag(article_tags, a.id, name)
              first == Stored(copies.article_tags, once.table, Range(once.rows))
              twice == add_tag(once.table, a.id, name)
              second == Stored(first, twice.table, Range(twice.rows))
          IN  CopiesIn([article_id |-> a.id, tag_name |-> name], second) = 1

\* C17 witness: two Favorites of one viewer for one article have both
\* returned, one of them with an error, and the row is stored.
TwoFavoritesOfOneViewer ==
    \E p, q \in DOMAIN ops :
        /\ p # q
        /\ ops[p].kind = "Favorite" /\ ops[q].kind = "Favorite"
        /\ ops[p].auth = ops[q].auth /\ ops[p].slug = ops[q].slug
        /\ ops[p].status = Ok /\ ops[q].status = Conflict
        /\ [user_id |-> ops[p].auth, article_id |-> ops[p].found[1].id] \in favorite_articles

\* ------------------------------------------------ one handler, stopped
\* the statements a handler executes, counted from 1: at most the lookup,
\* the UPDATE, delete_tags, one add_tag per tag and the queries of the response
Statements == 1..(4 + MaxTagList)

\* what handler op leaves when it runs on db with no other handler at work
\* and its statement number `failing` fails in the storage (0: none does)
RECURSIVE RunFrom(_, _, _)
RunFrom(db, op, failing) ==
    IF op.status # Running THEN { [db |-> db, status |-> op.status, found |-> op.found] }
    ELSE IF failing = 1
    THEN { [db |-> db, status |-> ErrorFrom("DatabaseError"), found |-> op.found] }
    ELSE UNION { RunFrom(s.db, s.op, IF failing = 0 THEN 0 ELSE failing - 1) :
                 s \in Step(db, op) }

\* what a run returns and leaves
Results(runs) == { [db |-> r.db, status |-> r.status] : r \in runs }

\* the messages a caller who retries a message may send: the same one; the
\* handler of a Create draws the article's id again
Reissued(op) ==
    IF op.kind = "Create" THEN { [op EXCEPT !.id = Some(id)] : id \in Uuids } ELSE { op }

\* the Creates, and the Deletes and the Updates with a tag list by the author
\* of a stored article
TagReplacingRequests ==
    { Op("Create", author, <<>>, Some(id), Some(title), Some(description), Some(body),
         Some(tag_list)) :
        author \in Users, id \in Uuids, title \in Titles, description \in Texts,
        body \in Texts, tag_list \in TagLists }
    \cup UNION { { Op("Update", a.author_id, a.slug, None, p[1], p[2], p[3], p[4]) :
                   p \in { q \in Patches : q[4] # None } } : a \in articles }

DeleteRequests == { Op("Delete", a.author_id, a.slug, None, None, None, None, None) :
                    a \in articles }

\* C16 (as claimed): when a Delete, a Create or an Update with a tag list
\* that a run without failures completes stops at a failing statement after
\* at least one statement, sending the message again succeeds and leaves what
\* the run without failures leaves.
RetrySucceedsAsUnfailed ==
    \A op \in DeleteRequests \cup TagReplacingRequests :
    \A unfailed \in RunFrom(DB, op, 0) :
        unfailed.status = Ok =>
            \A k \in Statements \ {1} :
            \A stopped \in RunFrom(DB, op, k) :
                stopped.status = InternalServerError =>
                    \A again \in Reissued(op) :
                    \A retried \in RunFrom(stopped.db, again, 0) :
                        retried.status = Ok /\ retried.db = unfailed.db

\* an Update that leaves the slug as it is
KeepsSlug(op) ==
    op.title # None =>
        \A a \in Articles(op.slug) : generate_slug(a.id, op.title[1]) = op.slug

\* C16 (amended): when a Delete, or an Update with a tag list that leaves the
\* slug as it is, stops at a failing statement after at least one statement,
\* the same message sent again returns what a run without failures returns
\* and leaves what it leaves; and replace_tags, run again on what a stopped
\* Create or Update left, leaves the article the tag rows, and returns the
\* result, of the replace_tags of a run without failures.
RetryAsUnfailed ==
    /\ \A op \in DeleteRequests \cup { u \in TagReplacingRequests : u.kind = "Update" } :
           LET unfailed == Results(RunFrom(DB, op, 0))
           IN  KeepsSlug(op) =>
                   \A k \in Statements \ {1} :
                   \A stopped \in RunFrom(DB, op, k) :
                       stopped.status = InternalServerError =>
                           Results(RunFrom(stopped.db, op, 0)) = unfailed
    /\ \A op \in TagReplacingRequests :
       \A k \in Statements \ {1} :
       \A stopped \in RunFrom(DB, op, k) :
           (stopped.status = InternalServerError /\ stopped.found # None) =>
               LET id == stopped.found[1].id
                   again == replace_tags(stopped.db.article_tags, id, op.tag_list[1])
                   unfailed == replace_tags(article_tags, id, op.tag_list[1])
               IN  /\ TagsOf(again.table, id) = TagsOf(unfailed.table, id)
                   /\ again.err = unfailed.err

\* C16 witness: a Delete and an Update with a tag list have stopped after
\* changing rows, short of what they leave without failures, and succeed when
\* sent again.
RetryAfterPartialRun ==
    \E del \in DeleteRequests :
    \E upd \in { u \in TagReplacingRequests : u.kind = "Update" /\ u.title = None } :
    \E k, m \in Statements :
    \E d \in RunFrom(DB, del, k), u \in RunFrom(DB, upd, m) :
        /\ d.status = InternalServerError /\ d.db # DB
        /\ u.status = InternalServerError /\ u.db.article_tags # article_tags
        /\ \E r \in RunFrom(d.db, del, 0) : r.status = Ok /\ r.db # d.db
        /\ \E r \in RunFrom(u.db, upd, 0) : r.status = Ok /\ r.db # u.db

\* C18: a Create whose replace_tags fails (in the storage, or at an add_tag)
\* returns an error and leaves the article row it inserted; an Update whose
\* replace_tags fails returns an error and leaves the article row as its
\* UPDATE wrote it (fields of the patch, slug of the new title).
ArticleWrittenBeforeTags ==
    \A op \in TagReplacingRequests :
        LET first == IF op.kind = "Create" THEN 2 ELSE 3
            \* the statements of replace_tags, and 0 for no failure in the storage
            failures == {0} \cup (first..(first + Len(op.tag_list[1])))
        IN  \A k \in failures :
            \A stopped \in RunFrom(DB, op, k) :
                (stopped.status # Ok /\ stopped.found # None) =>
                    IF op.kind = "Create"
                    THEN \E a \in stopped.db.articles :
                            /\ a.id = op.id[1] /\ a.author_id = op.auth
                            /\ a.title = op.title[1]
                            /\ a.slug = generate_slug(a.id, a.title)
                    ELSE IsNoop([slug |-> None, title |-> op.title,
                                 description |-> op.description, body |-> op.body])
                         \/ \A before \in Articles(op.slug) :
                            \E a \in stopped.db.articles :
                                /\ a.id = before.id
                                /\ a.title = (IF op.title = None THEN before.title
                                              ELSE op.title[1])
                                /\ a.description = (IF op.description = None
                                                    THEN before.description
                                                    ELSE op.description[1])
                                /\ a.body = (IF op.body = None THEN before.body
                                             ELSE op.body[1])
                                /\ a.slug = generate_slug(a.id, a.title)

\* C18 witness: an Update that retitles an article and replaces its tags
\* has failed after delete_tags: the new title and slug are stored and the
\* tags the article had are gone; and a Create has failed at an add_tag with
\* its article row stored.
PartialStateAfterFailedTags ==
    /\ \E op \in { u \in TagReplacingRequests : u.kind = "Update" /\ u.title # None } :
       \E stopped \in RunFrom(DB, op, 4) :
       \E before \in Articles(op.slug) :
          /\ stopped.status = InternalServerError
          /\ TagsOf(article_tags, before.id) # {}
          /\ TagsOf(stopped.db.article_tags, before.id) = {}
          /\ before.title # op.title[1]
          /\ \E a \in stopped.db.articles : a.id = before.id /\ a.title = op.title[1]
    /\ \E op \in { c \in TagReplacingRequests : c.kind = "Create" } :
       \E stopped \in RunFrom(DB, op, 0) :
          /\ stopped.status = NotFound
          /\ \E a \in stopped.db.articles : a.id = op.id[1]
          /\ \A a \in articles : a.id # op.id[1]

====
